---------------------------- MODULE Spec2Model ----------------------------
(***************************************************************************)
(* Model of the Blender voice/text assistant (src/process_command.py):     *)
(* the response interpreter, the typed dispatcher process_command, the     *)
(* script-generation path execute_generated_blender_script, and the voice  *)
(* and text input loops around them.                                       *)
(*                                                                         *)
(* Text is modelled as a sequence of tokens (the concatenation of the      *)
(* tokens' characters is the Python string).  Python values are records    *)
(* [t, s, n, m]: a type tag, the characters of a str, the number of an     *)
(* int (units) or float (hundredths), and the items of a dict.  A message  *)
(* is the sequence of the pieces its f-string concatenates.                *)
(***************************************************************************)
EXTENDS Integers, Sequences, FiniteSets, TLC

VARIABLES
    can_post_message,            \* module global, line 407
    current_test_command_index,  \* module global, line 406
    pc,                          \* position of the top-level script
    cmd_text,                    \* the utterance handed to process_command
    fn,                          \* function called for the current utterance
    reply,                       \* raw text of the model's reply to the call
    intent,                      \* what lines 334-335 read from the reply
    outcome,                     \* "none" | "returned" | "raised"
    result,                      \* what the call returned: a message, a color
    raised,                      \* the exception that left the call
    notified,                    \* post_message_if_possible calls, in order
    invoked,                     \* calls of registry entries, in order
    hostops,                     \* bpy.ops scene operators run, in order
    executed,                    \* texts handed to exec(), in order
    asked,                       \* ollama.chat calls, in order: the prompt of each
    payload                      \* how the environment built the reply

vars == <<can_post_message, current_test_command_index, pc, cmd_text, fn,
          reply, intent, outcome, result, raised, notified, invoked,
          hostops, executed, asked, payload>>

-----------------------------------------------------------------------------
(* Bounds of the model.                                                    *)

\* Longest run of commentary tokens put before or after a JSON payload.
MaxCommentary == 2
\* post_message_if_possible calls of one utterance that may fail.
NotifyAttempts == 2
\* Longest sequence handed to the color parser.
MaxComponents == 5

-----------------------------------------------------------------------------
(* Python values.                                                          *)

PyNone == [t |-> "None", s |-> "", n |-> 0, m |-> <<>>]
PyStr(s) == [t |-> "str", s |-> s, n |-> 0, m |-> <<>>]
PyInt(n) == [t |-> "int", s |-> "", n |-> n, m |-> <<>>]
\* a float, held in hundredths: PyFloat(9000) is 90.0
PyFloat(n) == [t |-> "float", s |-> "", n |-> n, m |-> <<>>]
\* a dict: its items <<key, value>> in insertion order, keys distinct
PyDict(items) == [t |-> "dict", s |-> "", n |-> 0, m |-> items]
\* a list and a tuple: their elements
PyList(elems) == [t |-> "list", s |-> "", n |-> 0, m |-> elems]
PyTuple(elems) == [t |-> "tuple", s |-> "", n |-> 0, m |-> elems]

\* bool(v), as 'if not v' reads it
Truthy(v) ==
    CASE v.t = "None" -> FALSE
      [] v.t = "str" -> v.s # ""
      [] v.t \in {"int", "float", "bool"} -> v.n # 0
      [] v.t \in {"dict", "list", "tuple"} -> v.m # <<>>
      [] OTHER -> TRUE

\* key in d, for a dict d
HasKey(d, key) == \E i \in 1..Len(d.m) : d.m[i][1] = key

\* d.get(key, default)
DictGet(d, key, default) ==
    IF HasKey(d, key)
    THEN d.m[CHOOSE i \in 1..Len(d.m) : d.m[i][1] = key][2]
    ELSE default

\* d[key] = v: a key already present keeps its place and takes the new value
DictPut(d, key, v) ==
    IF HasKey(d, key)
    THEN PyDict([i \in 1..Len(d.m) |->
                    IF d.m[i][1] = key THEN <<key, v>> ELSE d.m[i]])
    ELSE PyDict(Append(d.m, <<key, v>>))

\* No exception, and an exception of class cls with message pieces detail.
NoExc == [cls |-> "", detail |-> <<>>]
Exc(cls, detail) == [cls |-> cls, detail |-> detail]

\* The classes that 'except Exception' does not catch.
BaseOnly == {"SystemExit", "KeyboardInterrupt"}
IsException(e) == e.cls # "" /\ e.cls \notin BaseOnly

-----------------------------------------------------------------------------
(* Text: tokens and the str methods the code uses.                         *)

Punct(s) == [k |-> "punct", s |-> s]   \* one of { } : , and the fence marker
JStr(s) == [k |-> "str", s |-> s]      \* a double-quoted JSON string
JNum(s) == [k |-> "num", s |-> s]      \* a JSON number literal
Word(s) == [k |-> "word", s |-> s]     \* any other run of non-blank text
Space(s) == [k |-> "ws", s |-> s]      \* a run of whitespace

\* str.strip(): leading and trailing whitespace removed
RECURSIVE LStrip(_)
LStrip(text) ==
    IF text # <<>> /\ Head(text).k = "ws" THEN LStrip(Tail(text)) ELSE text

RECURSIVE RStrip(_)
RStrip(text) ==
    IF text # <<>> /\ text[Len(text)].k = "ws"
    THEN RStrip(SubSeq(text, 1, Len(text) - 1))
    ELSE text

Strip(text) == RStrip(LStrip(text))

\* str.find(tok): the 0-based index of the first occurrence, or -1
Find(text, tok) ==
    IF \E i \in 1..Len(text) : text[i] = tok
    THEN (CHOOSE i \in 1..Len(text) :
             text[i] = tok /\ \A j \in 1..(i - 1) : text[j] # tok) - 1
    ELSE -1

\* a scan that stops at the first occurrence, where str.rfind gives the last
LeftmostIndex(text, tok) == Find(text, tok)

\* str.rfind(tok): the 0-based index of the last occurrence, or -1
RFind(text, tok) ==
    IF \E i \in 1..Len(text) : text[i] = tok
    THEN (CHOOSE i \in 1..Len(text) :
             text[i] = tok /\ \A j \in (i + 1)..Len(text) : text[j] # tok) - 1
    ELSE -1

\* text[a:b] for 0 <= a and 0 <= b
Slice(text, a, b) == SubSeq(text, a + 1, IF b > Len(text) THEN Len(text) ELSE b)

\* the characters of a text, as message pieces
Pieces(text) == [i \in 1..Len(text) |-> text[i].s]

-----------------------------------------------------------------------------
(* Numbers.  Characters cannot be taken apart in TLA+, so the numerals     *)
(* that occur in the inputs are read through tables.                       *)

\* numerals that int() and json accept as integers, with their value
IntNumerals ==
    ("0" :> 0) @@ ("1" :> 1) @@ ("2" :> 2) @@ ("5" :> 5) @@ ("45" :> 45) @@ ("90" :> 90)
\* numerals with a fraction, with their value in hundredths
FracNumerals ==
    ("0.1" :> 10) @@ ("0.2" :> 20) @@ ("0.5" :> 50) @@ ("0.9" :> 90) @@ ("1.5" :> 150)
\* repr() of the floats that occur, keyed by their value in hundredths
FloatRepr ==
    (0 :> "0.0") @@ (10 :> "0.1") @@ (20 :> "0.2") @@ (40 :> "0.4") @@
    (50 :> "0.5") @@ (60 :> "0.6") @@ (75 :> "0.75") @@ (80 :> "0.8") @@
    (84 :> "0.84") @@ (90 :> "0.9") @@ (100 :> "1.0") @@ (150 :> "1.5") @@
    (200 :> "2.0") @@ (500 :> "5.0") @@ (4500 :> "45.0") @@ (9000 :> "90.0")
\* str.upper() of the strings that occur with a lower-case letter
UpperTable ==
    ("x" :> "X") @@ ("y" :> "Y") @@ ("z" :> "Z") @@ ("q" :> "Q") @@ ("abc" :> "ABC")

Upper(s) == IF s \in DOMAIN UpperTable THEN UpperTable[s] ELSE s

\* str.lower() of the strings that occur with an upper-case letter
LowerTable == ("RED" :> "red") @@ ("Red" :> "red") @@ ("Blue" :> "blue") @@ ("X" :> "x")

Lower(s) == IF s \in DOMAIN LowerTable THEN LowerTable[s] ELSE s

\* str.split(',') of the strings that occur with a comma
SplitTable ==
    ("0.1,0.2,0.9" :> <<"0.1", "0.2", "0.9">>) @@
    ("1,0,0,0.5" :> <<"1", "0", "0", "0.5">>) @@
    ("2,0,0" :> <<"2", "0", "0">>) @@
    ("1,2" :> <<"1", "2">>) @@
    ("1,0,0,0.5,1" :> <<"1", "0", "0", "0.5", "1">>) @@
    ("1.5,0,0,2" :> <<"1.5", "0", "0", "2">>) @@
    ("not,a,color" :> <<"not", "a", "color">>)

SplitComma(s) == IF s \in DOMAIN SplitTable THEN SplitTable[s] ELSE <<s>>

\* float(v): [exc, val]
Float(v) ==
    CASE v.t = "float" -> [exc |-> NoExc, val |-> v]
      [] v.t \in {"int", "bool"} -> [exc |-> NoExc, val |-> PyFloat(100 * v.n)]
      [] v.t = "str" /\ v.s \in DOMAIN IntNumerals ->
            [exc |-> NoExc, val |-> PyFloat(100 * IntNumerals[v.s])]
      [] v.t = "str" /\ v.s \in DOMAIN FracNumerals ->
            [exc |-> NoExc, val |-> PyFloat(FracNumerals[v.s])]
      [] v.t = "str" ->
            [exc |-> Exc("ValueError", <<"could not convert string to float: '", v.s, "'">>),
             val |-> PyNone]
      [] OTHER ->
            [exc |-> Exc("TypeError", <<"float() argument must be a string or a real number, not '", v.t, "'">>),
             val |-> PyNone]

\* str(v), the characters
Str(v) ==
    CASE v.t = "str" -> v.s
      [] v.t = "float" -> FloatRepr[v.n]
      [] v.t = "int" -> ToString(v.n)
      [] v.t = "None" -> "None"
      [] v.t = "bool" -> IF v.n = 1 THEN "True" ELSE "False"
      [] OTHER -> "<container>"

\* math.radians(x) for a float x in hundredths of a degree: milliradians
Radians(x) == (x.n * 31416) \div 180000

-----------------------------------------------------------------------------
(* json.loads over a token text: objects, strings, numbers and the three   *)
(* literals; whitespace between tokens is skipped.                         *)

RECURSIVE SkipWs(_, _)
SkipWs(text, i) ==
    IF i <= Len(text) /\ text[i].k = "ws" THEN SkipWs(text, i + 1) ELSE i

JsonFail(i) == [ok |-> FALSE, val |-> PyNone, next |-> i]
JsonOk(v, i) == [ok |-> TRUE, val |-> v, next |-> i]

JsonNumber(s) ==
    IF s \in DOMAIN IntNumerals THEN PyInt(IntNumerals[s]) ELSE PyFloat(FracNumerals[s])

RECURSIVE JsonValue(_, _)
RECURSIVE JsonMembers(_, _, _, _)

\* one value starting at position i (1-based): [ok, val, next]
JsonValue(text, i0) ==
    LET i == SkipWs(text, i0) IN
    IF i > Len(text) THEN JsonFail(i)
    ELSE LET tok == text[i] IN
         CASE tok.k = "str" -> JsonOk(PyStr(tok.s), i + 1)
           [] tok.k = "num" -> JsonOk(JsonNumber(tok.s), i + 1)
           [] tok = [k |-> "word", s |-> "null"] -> JsonOk(PyNone, i + 1)
           [] tok = [k |-> "word", s |-> "true"] ->
                 JsonOk([t |-> "bool", s |-> "", n |-> 1, m |-> <<>>], i + 1)
           [] tok = [k |-> "word", s |-> "false"] ->
                 JsonOk([t |-> "bool", s |-> "", n |-> 0, m |-> <<>>], i + 1)
           [] tok = Punct("{") -> JsonMembers(text, i + 1, PyDict(<<>>), TRUE)
           [] OTHER -> JsonFail(i)

\* the members of an object after its "{" (first) or after a ","
JsonMembers(text, i0, d, first) ==
    LET i == SkipWs(text, i0) IN
    IF i > Len(text) THEN JsonFail(i)
    ELSE IF first /\ text[i] = Punct("}") THEN JsonOk(d, i + 1)
    ELSE IF text[i].k # "str" THEN JsonFail(i)
    ELSE LET c == SkipWs(text, i + 1) IN
         IF c > Len(text) \/ text[c] # Punct(":") THEN JsonFail(c)
         ELSE LET r == JsonValue(text, c + 1) IN
              IF ~r.ok THEN r
              ELSE LET j == SkipWs(text, r.next)
                       d2 == DictPut(d, text[i].s, r.val)
                   IN  IF j > Len(text) THEN JsonFail(j)
                       ELSE IF text[j] = Punct("}") THEN JsonOk(d2, j + 1)
                       ELSE IF text[j] = Punct(",") THEN JsonMembers(text, j + 1, d2, FALSE)
                       ELSE JsonFail(j)

\* json.loads(text): [exc, val]
json_loads(text) ==
    LET r == JsonValue(text, 1) IN
    IF ~r.ok
    THEN [exc |-> Exc("JSONDecodeError", <<"Expecting value">>), val |-> PyNone]
    ELSE IF SkipWs(text, r.next) # Len(text) + 1
    THEN [exc |-> Exc("JSONDecodeError", <<"Extra data">>), val |-> PyNone]
    ELSE [exc |-> NoExc, val |-> r.val]

-----------------------------------------------------------------------------
(* Running Python.  A function of the program is an operator from the      *)
(* effects so far (m: the notifications, registry calls, host operators    *)
(* and exec() texts, in order) and the environment of the call (env: what  *)
(* the model, the host and the generated script do) to a step [m, exc,     *)
(* ret]: the effects after it, the exception it raised if any, and the     *)
(* message it returned.                                                    *)

NoEffects ==
    [notified |-> <<>>, invoked |-> <<>>, hostops |-> <<>>, executed |-> <<>>,
     asked |-> <<>>]

Return(m, msg) == [m |-> m, exc |-> NoExc, ret |-> msg]
Raise(m, e) == [m |-> m, exc |-> e, ret |-> <<>>]
Raised(step) == step.exc # NoExc

\* post_message_if_possible(message): the host's message operator when the
\* probe of line 407 found it, the console otherwise.  The operator, like
\* every bpy.ops call, may raise RuntimeError: env.nf holds the calls of this
\* utterance (1st, 2nd, ...) that do.
post_message_if_possible(m, env, message) ==
    LET k == Len(m.notified) + 1
        fails == env.can_post /\ k \in env.nf
        m2 == [m EXCEPT !.notified = Append(@, [body |-> message, ok |-> ~fails])]
    IN  IF fails
        THEN Raise(m2, Exc("RuntimeError", <<"Operator bpy.ops.script.message_post failed">>))
        ELSE Return(m2, <<>>)

\* a scene operator bpy.ops.<op>(args): runs, or raises RuntimeError
HostOp(m, env, op) ==
    LET m2 == [m EXCEPT !.hostops = Append(@, op)] IN
    IF env.hostFail
    THEN Raise(m2, Exc("RuntimeError", <<"Operator bpy.ops.", op[1], " failed, context is incorrect">>))
    ELSE Return(m2, <<>>)

\* print(msg); post_message_if_possible(msg); return msg
PostAndReturn(m, env, msg) ==
    LET p == post_message_if_possible(m, env, msg) IN
    IF Raised(p) THEN p ELSE Return(p.m, msg)

-----------------------------------------------------------------------------
(* The action functions.  Arguments are Python values.                     *)

\* scale_object_action(scale_x, scale_y, scale_z)
scale_object_action(m, env, scale_x, scale_y, scale_z) ==
    LET fx == Float(scale_x)
        fy == Float(scale_y)
        fz == Float(scale_z)
    IN  IF fx.exc # NoExc THEN Raise(m, fx.exc)
        ELSE IF fy.exc # NoExc THEN Raise(m, fy.exc)
        ELSE IF fz.exc # NoExc THEN Raise(m, fz.exc)
        ELSE LET h == HostOp(m, env, <<"transform.resize", Str(fx.val), Str(fy.val), Str(fz.val)>>) IN
             IF Raised(h) THEN h
             ELSE PostAndReturn(h.m, env,
                     <<"Scaled object by x:", Str(scale_x), ", y:", Str(scale_y),
                       ", z:", Str(scale_z)>>)

\* rotate_object_action(angle_degrees, axis)
rotate_object_action(m, env, angle_degrees, axis) ==
    LET f == Float(angle_degrees) IN
    IF f.exc # NoExc THEN Raise(m, f.exc)
    ELSE LET h == HostOp(m, env, <<"transform.rotate", ToString(Radians(f.val)), Upper(Str(axis))>>) IN
         IF Raised(h) THEN h
         ELSE PostAndReturn(h.m, env,
                 <<"Rotated object by ", Str(angle_degrees), " degrees around ",
                   Str(axis), " axis.">>)

\* move_object_action(delta_x, delta_y, delta_z)
move_object_action(m, env, delta_x, delta_y, delta_z) ==
    LET fx == Float(delta_x)
        fy == Float(delta_y)
        fz == Float(delta_z)
    IN  IF fx.exc # NoExc THEN Raise(m, fx.exc)
        ELSE IF fy.exc # NoExc THEN Raise(m, fy.exc)
        ELSE IF fz.exc # NoExc THEN Raise(m, fz.exc)
        ELSE LET h == HostOp(m, env, <<"transform.translate", Str(fx.val), Str(fy.val), Str(fz.val)>>) IN
             IF Raised(h) THEN h
             ELSE PostAndReturn(h.m, env,
                     <<"Moved object by x:", Str(delta_x), ", y:", Str(delta_y),
                       ", z:", Str(delta_z)>>)

\* remove_selected_nodes_action(): the body runs inside try; its handlers
\* (RuntimeError, then Exception) post and return a message themselves.
remove_selected_nodes_action(m, env) ==
    LET body ==
            IF ~env.nodeEditor
            THEN PostAndReturn(m, env, <<"No active Node Editor found. Please open a Node Editor.">>)
            ELSE LET h == HostOp(m, env, <<"node.delete">>) IN
                 IF Raised(h) THEN h
                 ELSE PostAndReturn(h.m, env, <<"Attempted to delete selected nodes in the active node editor.">>)
    IN  IF ~Raised(body) THEN body
        ELSE IF body.exc.cls = "RuntimeError"
        THEN PostAndReturn(body.m, env,
                <<"Error deleting nodes: ">> \o body.exc.detail \o
                <<". Ensure a Node Editor is active and nodes are selected.">>)
        ELSE IF IsException(body.exc)
        THEN PostAndReturn(body.m, env,
                <<"An unexpected error occurred while removing selected nodes: ">> \o body.exc.detail)
        ELSE body

-----------------------------------------------------------------------------
(* The script-generation path.  A script text is made of code tokens,      *)
(* whitespace, fence markers and words (a language tag, commentary); no    *)
(* token of the inputs has "python" as a proper prefix of its characters,  *)
(* so str.startswith is a comparison of leading tokens.                    *)

\* the fence marker: three backquotes
Fence == Punct("FENCE")
Code(s) == [k |-> "code", s |-> s]

StartsWith(text, prefix) ==
    Len(text) >= Len(prefix) /\ SubSeq(text, 1, Len(prefix)) = prefix

EndsWith(text, suffix) ==
    Len(text) >= Len(suffix) /\
    SubSeq(text, Len(text) - Len(suffix) + 1, Len(text)) = suffix

\* lines 253-256: the text handed on after the fences are stripped
StripFences(content) ==
    LET c0 == Strip(content)
        c1 == IF StartsWith(c0, <<Fence, Word("python")>>)
              THEN Strip(Slice(c0, 2, Len(c0))) ELSE c0
        c2 == IF StartsWith(c1, <<Fence>>)
              THEN Strip(Slice(c1, 1, Len(c1))) ELSE c1
    IN  IF EndsWith(c2, <<Fence>>)
        THEN Strip(Slice(c2, 0, Len(c2) - 1)) ELSE c2

\* exec(generated_code, ...): a text with a token that is no Python raises
\* SyntaxError (or NameError); a script does what the environment says:
\* runs to its end, raises an Exception, or raises SystemExit (sys.exit(),
\* exit(), quit()) or KeyboardInterrupt.
Exec(m, env, code) ==
    LET m2 == [m EXCEPT !.executed = Append(@, code)] IN
    IF \E i \in 1..Len(code) : code[i].k \notin {"code", "ws"}
    THEN Raise(m2, Exc("SyntaxError", <<"invalid syntax (<string>, line 1)">>))
    ELSE CASE env.execOutcome = "ok" -> Return(m2, <<>>)
           [] env.execOutcome = "Exception" -> Raise(m2, Exc("ZeroDivisionError", <<"division by zero">>))
           [] OTHER -> Raise(m2, Exc(env.execOutcome, <<>>))

\* a client that asks a second time when the first call fails
ChatAgain(m, prompt, answer) ==
    IF answer.ok THEN Return([m EXCEPT !.asked = Append(@, prompt)], <<>>)
    ELSE Raise([m EXCEPT !.asked = @ \o <<prompt, prompt>>],
               Exc("ConnectionError", <<"Failed to connect to Ollama">>))

\* ollama.chat(...): the reply's content, or the client's exception
Chat(m, prompt, answer) ==
    LET m2 == [m EXCEPT !.asked = Append(@, prompt)] IN
    IF answer.ok THEN Return(m2, <<>>)
    ELSE Raise(m2, Exc("ConnectionError", <<"Failed to connect to Ollama">>))

\* execute_generated_blender_script(script_description)
execute_generated_blender_script(m, env, script_description) ==
    LET chat == Chat(m, "script_prompt", env.scriptChat)
        generated_code == StripFences(env.scriptChat.content)
        body ==
            IF Raised(chat) THEN chat
            ELSE IF generated_code = <<>>
            THEN PostAndReturn(chat.m, env, <<"LLM did not return any script code.">>)
            ELSE LET x == Exec(chat.m, env, generated_code) IN
                 IF Raised(x) THEN x
                 ELSE PostAndReturn(x.m, env,
                         <<"Successfully executed generated script for: ", Str(script_description)>>)
    IN  IF Raised(body) /\ IsException(body.exc)
        THEN PostAndReturn(body.m, env,
                <<"Error during script generation/execution: ">> \o body.exc.detail)
        ELSE body

-----------------------------------------------------------------------------
(* Colors and materials.  The scene the host holds at the call is          *)
(* env.scene: the objects by name (whether the object's data has           *)
(* materials, the name of its first material or "", whether that material  *)
(* has nodes once use_nodes is set, whether a Principled BSDF is among     *)
(* them, the state of the output node) and the name of the active object   *)
(* ("" for none).  Writes to the scene are recorded in m.hostops.          *)

STANDARD_COLORS ==
    ("red" :> <<100, 0, 0, 100>>) @@ ("green" :> <<0, 100, 0, 100>>) @@
    ("blue" :> <<0, 0, 100, 100>>) @@ ("white" :> <<100, 100, 100, 100>>) @@
    ("black" :> <<0, 0, 0, 100>>) @@ ("yellow" :> <<100, 100, 0, 100>>) @@
    ("orange" :> <<100, 50, 0, 100>>) @@ ("purple" :> <<50, 0, 50, 100>>) @@
    ("cyan" :> <<0, 100, 100, 100>>) @@ ("magenta" :> <<100, 0, 100, 100>>) @@
    ("gray" :> <<50, 50, 50, 100>>) @@ ("brown" :> <<60, 40, 20, 100>>) @@
    ("pink" :> <<100, 75, 80, 100>>) @@ ("lime" :> <<75, 100, 0, 100>>) @@
    ("teal" :> <<0, 50, 50, 100>>) @@ ("navy" :> <<0, 0, 50, 100>>) @@
    ("silver" :> <<75, 75, 75, 100>>) @@ ("gold" :> <<100, 84, 0, 100>>)

\* [float(x) for x in xs]: [exc, val], val the list of floats
RECURSIVE Floats(_)
Floats(xs) ==
    IF xs = <<>> THEN [exc |-> NoExc, val |-> <<>>]
    ELSE LET f == Float(Head(xs)) IN
         IF f.exc # NoExc THEN [exc |-> f.exc, val |-> <<>>]
         ELSE LET rest == Floats(Tail(xs)) IN
              IF rest.exc # NoExc THEN rest
              ELSE [exc |-> NoExc, val |-> <<f.val>> \o rest.val]

\* parse_color_value(color_value_input): [exc, val], val a 4-tuple or None
parse_color_value(color_value_input) ==
    IF color_value_input.t = "str"
    THEN LET color_str == Lower(color_value_input.s) IN
         IF color_str \in DOMAIN STANDARD_COLORS
         THEN [exc |-> NoExc,
               val |-> PyTuple([i \in 1..4 |-> PyFloat(STANDARD_COLORS[color_str][i])])]
         ELSE LET split == SplitComma(color_str)
                  parts == Floats([i \in 1..Len(split) |-> PyStr(split[i])])
              IN  IF parts.exc # NoExc
                  THEN IF parts.exc.cls = "ValueError"
                       THEN [exc |-> NoExc, val |-> PyNone]
                       ELSE [exc |-> parts.exc, val |-> PyNone]
                  ELSE IF Len(parts.val) = 3
                  THEN [exc |-> NoExc, val |-> PyTuple(parts.val \o <<PyFloat(100)>>)]
                  ELSE IF Len(parts.val) = 4
                  THEN [exc |-> NoExc, val |-> PyTuple(parts.val)]
                  ELSE [exc |-> NoExc, val |-> PyNone]
    ELSE IF color_value_input.t \in {"list", "tuple"} /\ Len(color_value_input.m) \in {3, 4}
    THEN LET parts == Floats(color_value_input.m) IN
         IF parts.exc # NoExc THEN [exc |-> parts.exc, val |-> PyNone]
         ELSE IF Len(parts.val) = 3
         THEN [exc |-> NoExc, val |-> PyTuple(parts.val \o <<PyFloat(100)>>)]
         ELSE [exc |-> NoExc, val |-> PyTuple(parts.val)]
    ELSE [exc |-> NoExc, val |-> PyNone]

NoObject == [name |-> "", materials_attr |-> FALSE, material |-> "",
             nodes |-> FALSE, bsdf |-> FALSE, output |-> "none"]

\* get_target_object(object_name)
get_target_object(env, object_name) ==
    IF Truthy(object_name)
    THEN IF Str(object_name) \in DOMAIN env.scene.objects
         THEN env.scene.objects[Str(object_name)]
         ELSE NoObject
    ELSE IF env.scene.active = "" THEN NoObject
    ELSE env.scene.objects[env.scene.active]

\* ensure_material(obj): [m, name], name the pieces of the material's name
ensure_material(m, obj) ==
    LET name == IF obj.material = "" THEN <<obj.name, "_Material">> ELSE <<obj.material>>
        created ==
            IF obj.material = ""
            THEN <<(<<"materials.new">> \o name), (<<"materials.append", obj.name>> \o name)>>
            ELSE <<>>
    IN  [m |-> [m EXCEPT !.hostops = @ \o created \o << <<"use_nodes = True">> \o name >>],
         name |-> name]

\* the pieces of str(t) for a tuple t of floats
RECURSIVE TupleRepr(_)
TupleRepr(elems) ==
    IF elems = <<>> THEN <<")">>
    ELSE <<Str(Head(elems))>> \o (IF Len(elems) > 1 THEN <<", ">> ELSE <<>>) \o
         TupleRepr(Tail(elems))

\* color_object_action(color_value, object_name=None)
color_object_action(m, env, color_value, object_name) ==
    LET target_obj == get_target_object(env, object_name) IN
    IF target_obj = NoObject
    THEN PostAndReturn(m, env, <<"Cannot color: No target object found or specified.">>)
    ELSE IF ~target_obj.materials_attr
    THEN PostAndReturn(m, env,
            <<"Cannot color: Object '", target_obj.name, "' does not support materials.">>)
    ELSE
    LET mat == ensure_material(m, target_obj) IN
    IF ~target_obj.nodes
    THEN PostAndReturn(mat.m, env,
            <<"Material '">> \o mat.name \o <<"' for object '", target_obj.name,
              "' does not have a node tree.">>)
    ELSE
    LET parsed_color == parse_color_value(color_value) IN
    IF parsed_color.exc # NoExc THEN Raise(mat.m, parsed_color.exc)
    ELSE IF ~Truthy(parsed_color.val)
    THEN PostAndReturn(mat.m, env, <<"Invalid color value provided: ", Str(color_value)>>)
    ELSE
    LET made ==
            IF target_obj.bsdf THEN <<>>
            ELSE << <<"nodes.new", "ShaderNodeBsdfPrincipled">> >> \o
                 (IF target_obj.output = "free" THEN << <<"links.new", "BSDF", "Surface">> >> ELSE <<>>)
        m2 == [mat.m EXCEPT !.hostops = @ \o made]
        color == TupleRepr(parsed_color.val.m)
    IN  IF ~target_obj.bsdf /\ env.nodesNewFails
        THEN PostAndReturn(mat.m, env,
                <<"Could not find or create Principled BSDF node for material '">> \o
                mat.name \o <<"': ", "node type not found">>)
        ELSE PostAndReturn(
                [m2 EXCEPT !.hostops = Append(@, <<"Base Color = (">> \o color)],
                env,
                <<"Object '", target_obj.name, "' base color set to (">> \o color \o <<".">>)

\* add_shader_node_action(node_type, object_name=None)
add_shader_node_action(m, env, node_type, object_name) ==
    LET target_obj == get_target_object(env, object_name) IN
    IF target_obj = NoObject
    THEN PostAndReturn(m, env, <<"Cannot add node: No target object found or specified.">>)
    ELSE IF ~target_obj.materials_attr
    THEN PostAndReturn(m, env,
            <<"Cannot add node: Object '", target_obj.name, "' does not support materials.">>)
    ELSE
    LET mat == ensure_material(m, target_obj) IN
    IF ~target_obj.nodes
    THEN PostAndReturn(mat.m, env,
            <<"Material '">> \o mat.name \o <<"' for object '", target_obj.name,
              "' does not have a node tree.">>)
    ELSE
    LET added == [mat.m EXCEPT !.hostops = Append(@, <<"nodes.new", Str(node_type)>>)]
        body ==
            IF env.nodesNewFails
            THEN Raise(mat.m, Exc("RuntimeError", <<"Node type ", Str(node_type), " undefined">>))
            ELSE IF env.locationFails
            THEN Raise(added, Exc("AttributeError",
                    <<"'bpy_struct' object has no attribute 'property_takearray_func'">>))
            ELSE PostAndReturn(added, env,
                    <<"Added '", Str(node_type), "' node to material '">> \o mat.name \o
                    <<"' of object '", target_obj.name, "'.">>)
    IN  IF ~Raised(body) THEN body
        ELSE IF body.exc.cls = "RuntimeError"
        THEN PostAndReturn(body.m, env,
                <<"Error adding node type '", Str(node_type), "': ">> \o body.exc.detail \o
                <<". Ensure it's a valid Blender shader node type.">>)
        ELSE IF IsException(body.exc)
        THEN PostAndReturn(body.m, env,
                <<"An unexpected error occurred while adding node '", Str(node_type), "': ">> \o
                body.exc.detail)
        ELSE body

-----------------------------------------------------------------------------
(* The command dictionary and the call of one of its entries.              *)

\* an entry made by a lambda expression, with the operator it runs
Lambda(op) == [def |-> "lambda", op |-> op]
\* an entry made by a def statement
Def(name) == [def |-> name, op |-> <<>>]

blender_commands ==
    ("add cube" :> Lambda(<<"mesh.primitive_cube_add", "size=2", "location=(0, 0, 0)">>)) @@
    ("add sphere" :> Lambda(<<"mesh.primitive_uv_sphere_add", "radius=1", "location=(2, 0, 0)">>)) @@
    ("add plane" :> Lambda(<<"mesh.primitive_plane_add", "size=2", "location=(0, 0, 0)">>)) @@
    ("add curve" :> Lambda(<<"curve.primitive_bezier_curve_add", "location=(0, 0, 0)">>)) @@
    ("add ocean modifier" :> Lambda(<<"object.modifier_add", "type='OCEAN'">>)) @@
    ("open geometry nodes" :> Lambda(<<"node.new_geometry_nodes_modifier">>)) @@
    ("delete object" :> Lambda(<<"object.delete">>)) @@
    ("scale object" :> Def("scale_object_action")) @@
    ("rotate object" :> Def("rotate_object_action")) @@
    ("move object" :> Def("move_object_action")) @@
    ("execute_blender_script" :> Def("execute_generated_blender_script")) @@
    ("color_object" :> Def("color_object_action")) @@
    ("add_shader_node" :> Def("add_shader_node_action")) @@
    ("remove_selected_nodes" :> Def("remove_selected_nodes_action")) @@
    ("front view" :> Lambda(<<"view3d.view_axis", "type='FRONT'">>)) @@
    ("right view" :> Lambda(<<"view3d.view_axis", "type='RIGHT'">>)) @@
    ("top view" :> Lambda(<<"view3d.view_axis", "type='TOP'">>)) @@
    ("camera view" :> Lambda(<<"view3d.view_camera">>))

AVAILABLE_COMMAND_KEYS == DOMAIN blender_commands

\* the default of a parameter that has none
Required == [t |-> "required", s |-> "", n |-> 0, m |-> <<>>]

\* the parameters of each def, in order, with their defaults
Signature(def) ==
    CASE def = "scale_object_action" ->
            << <<"scale_x", PyFloat(100)>>, <<"scale_y", PyFloat(100)>>, <<"scale_z", PyFloat(100)>> >>
      [] def = "rotate_object_action" ->
            << <<"angle_degrees", PyFloat(0)>>, <<"axis", PyStr("Z")>> >>
      [] def = "move_object_action" ->
            << <<"delta_x", PyFloat(0)>>, <<"delta_y", PyFloat(0)>>, <<"delta_z", PyFloat(0)>> >>
      [] def = "execute_generated_blender_script" -> << <<"script_description", Required>> >>
      [] def = "color_object_action" -> << <<"color_value", Required>>, <<"object_name", PyNone>> >>
      [] def = "add_shader_node_action" -> << <<"node_type", Required>>, <<"object_name", PyNone>> >>
      [] OTHER -> <<>>

\* the first parameter a call with keyword arguments kwargs leaves unbound, or ""
Unbound(def, kwargs) ==
    LET sig == Signature(def)
        open == {i \in 1..Len(sig) : sig[i][2] = Required /\ ~HasKey(kwargs, sig[i][1])}
    IN  IF open = {} THEN ""
        ELSE sig[CHOOSE i \in open : \A j \in open : i <= j][1]

\* the argument a call binds to parameter number i
Arg(def, kwargs, i) == DictGet(kwargs, Signature(def)[i][1], Signature(def)[i][2])

\* action_function(**kwargs) for the entry under key: Python binds the
\* arguments (TypeError when a parameter without default gets none) and
\* then runs the body
Call(m, env, key, kwargs) ==
    LET entry == blender_commands[key]
        def == entry.def
        m1 == [m EXCEPT !.invoked = Append(@, [command |-> key, kwargs |-> kwargs])]
    IN  IF Unbound(def, kwargs) # ""
        THEN Raise(m1, Exc("TypeError",
                <<def, "() missing 1 required positional argument: '", Unbound(def, kwargs), "'">>))
        ELSE CASE def = "lambda" -> HostOp(m1, env, entry.op)
               [] def = "scale_object_action" ->
                     scale_object_action(m1, env, Arg(def, kwargs, 1), Arg(def, kwargs, 2), Arg(def, kwargs, 3))
               [] def = "rotate_object_action" ->
                     rotate_object_action(m1, env, Arg(def, kwargs, 1), Arg(def, kwargs, 2))
               [] def = "move_object_action" ->
                     move_object_action(m1, env, Arg(def, kwargs, 1), Arg(def, kwargs, 2), Arg(def, kwargs, 3))
               [] def = "execute_generated_blender_script" ->
                     execute_generated_blender_script(m1, env, Arg(def, kwargs, 1))
               [] def = "color_object_action" ->
                     color_object_action(m1, env, Arg(def, kwargs, 1), Arg(def, kwargs, 2))
               [] def = "add_shader_node_action" ->
                     add_shader_node_action(m1, env, Arg(def, kwargs, 1), Arg(def, kwargs, 2))
               [] def = "remove_selected_nodes_action" ->
                     remove_selected_nodes_action(m1, env)

-----------------------------------------------------------------------------
(* process_command.                                                        *)

\* lines 320-335: the reply's content read as an intent:
\* [exc, command_name, params_dict]
Interpret(raw) ==
    LET ai_response_content == Strip(raw)
        json_start_index == Find(ai_response_content, Punct("{"))
        json_end_index == RFind(ai_response_content, Punct("}")) + 1
        parsed_response ==
            IF json_start_index # -1 /\ json_end_index # -1
            THEN json_loads(Slice(ai_response_content, json_start_index, json_end_index))
            ELSE [exc |-> Exc("JSONDecodeError", <<"No JSON object in response">>),
                  val |-> PyNone]
    IN  IF parsed_response.exc # NoExc
        THEN [exc |-> parsed_response.exc, command_name |-> PyNone, params_dict |-> PyNone]
        ELSE [exc |-> NoExc,
              command_name |-> DictGet(parsed_response.val, "command", PyNone),
              params_dict |-> DictGet(parsed_response.val, "parameters", PyDict(<<>>))]

\* callable(f), for an entry of the dictionary
Callable(entry) == TRUE

\* type(f): a lambda expression and a def statement both make an object of
\* the class function
TypeOf(entry) == "function"

\* line 346: callable(action_function) and
\*           not isinstance(action_function, type(lambda:0))
IsFullFunction(action_function) ==
    Callable(action_function) /\ ~(TypeOf(action_function) = TypeOf(Lambda(<<>>)))

\* k in params_dict: [exc, val].  No str or list among the inputs holds a
\* parameter name.
In(k, params_dict) ==
    IF params_dict.t \in {"dict", "str", "list", "tuple"}
    THEN [exc |-> NoExc, val |-> params_dict.t = "dict" /\ HasKey(params_dict, k)]
    ELSE [exc |-> Exc("TypeError", <<"argument of type '", params_dict.t, "' is not iterable">>),
          val |-> FALSE]

\* for k in keys: if k in params_dict: typed_params[k] = float(params_dict[k])
RECURSIVE FloatParams(_, _, _)
FloatParams(keys, params_dict, typed_params) ==
    IF keys = <<>> THEN [exc |-> NoExc, missing |-> "", val |-> typed_params]
    ELSE LET k == Head(keys)
             has == In(k, params_dict)
         IN  IF has.exc # NoExc THEN [exc |-> has.exc, missing |-> "", val |-> typed_params]
             ELSE IF ~has.val THEN FloatParams(Tail(keys), params_dict, typed_params)
             ELSE LET f == Float(DictGet(params_dict, k, PyNone)) IN
                  IF f.exc # NoExc THEN [exc |-> f.exc, missing |-> "", val |-> typed_params]
                  ELSE FloatParams(Tail(keys), params_dict, DictPut(typed_params, k, f.val))

\* if name in params_dict: typed_params[name] = str(params_dict[name])
StrParam(name, params_dict, typed_params) ==
    LET has == In(name, params_dict) IN
    IF has.exc # NoExc THEN [exc |-> has.exc, missing |-> "", val |-> typed_params]
    ELSE IF ~has.val THEN [exc |-> NoExc, missing |-> name, val |-> typed_params]
    ELSE [exc |-> NoExc, missing |-> "",
          val |-> DictPut(typed_params, name, PyStr(Str(DictGet(params_dict, name, PyNone))))]

\* lines 347-368: [exc, missing, val]: the exception raised, or the
\* parameter reported missing, or the typed parameters
TypedParams(command_name, params_dict) ==
    LET none == PyDict(<<>>) IN
    CASE command_name = "scale object" ->
            FloatParams(<<"scale_x", "scale_y", "scale_z">>, params_dict, none)
      [] command_name = "rotate object" ->
            LET angle == FloatParams(<<"angle_degrees">>, params_dict, none) IN
            IF angle.exc # NoExc THEN angle
            ELSE LET axis == StrParam("axis", params_dict, angle.val) IN
                 IF axis.exc # NoExc \/ axis.missing # ""
                 THEN [axis EXCEPT !.missing = ""]
                 ELSE [axis EXCEPT !.val =
                          DictPut(@, "axis", PyStr(Upper(DictGet(@, "axis", PyNone).s)))]
      [] command_name = "move object" ->
            FloatParams(<<"delta_x", "delta_y", "delta_z">>, params_dict, none)
      [] command_name = "execute_blender_script" ->
            StrParam("script_description", params_dict, none)
      [] command_name = "color_object" ->
            LET has == In("color_value", params_dict) IN
            IF has.exc # NoExc THEN [exc |-> has.exc, missing |-> "", val |-> none]
            ELSE IF ~has.val THEN [exc |-> NoExc, missing |-> "color_value", val |-> none]
            ELSE LET name == StrParam("object_name", params_dict,
                                DictPut(none, "color_value", DictGet(params_dict, "color_value", PyNone)))
                 IN  [name EXCEPT !.missing = ""]
      [] command_name = "add_shader_node" ->
            LET type == StrParam("node_type", params_dict, none) IN
            IF type.exc # NoExc \/ type.missing # "" THEN type
            ELSE LET name == StrParam("object_name", params_dict, type.val) IN
                 [name EXCEPT !.missing = ""]
      [] OTHER -> [exc |-> NoExc, missing |-> "", val |-> none]

\* lines 375-380: after the call, post and return "Executed: <command>"
Executed(done, env, key) ==
    IF Raised(done) THEN done
    ELSE PostAndReturn(done.m, env, <<"Executed: ", key>>)

\* lines 347-374: the typed parameters are built, or a required one is
\* reported missing; then return action_function(**typed_params)
Typed(m, env, key, typed_params) ==
    IF typed_params.exc # NoExc THEN Raise(m, typed_params.exc)
    ELSE IF typed_params.missing # ""
    THEN PostAndReturn(m, env, <<"Error: '", typed_params.missing, "' missing.">>)
    ELSE Call(m, env, key, typed_params.val)

\* lines 343-383: look the command up and run its entry
Dispatch(m, env, command_name, params_dict) ==
    IF command_name.t \in {"dict", "list"}
    THEN Raise(m, Exc("TypeError", <<"unhashable type: '", command_name.t, "'">>))
    ELSE IF command_name.t = "str" /\ command_name.s \in DOMAIN blender_commands
    THEN IF IsFullFunction(blender_commands[command_name.s])
         THEN Typed(m, env, command_name.s, TypedParams(command_name.s, params_dict))
         ELSE Executed(Call(m, env, command_name.s, PyDict(<<>>)), env, command_name.s)
    ELSE PostAndReturn(m, env, <<"Command '", Str(command_name), "' not recognized.">>)

\* lines 385-387: except Exception as e
Handled(body, env) ==
    IF Raised(body) /\ IsException(body.exc)
    THEN PostAndReturn(body.m, env, <<"Error in process_command: ">> \o body.exc.detail)
    ELSE body

\* lines 319-383: the try block, given the model's reply and the intent
\* read from it
Body(m, env, chat, parsed) ==
    IF Raised(chat) THEN chat
    ELSE IF parsed.exc # NoExc
    THEN PostAndReturn(chat.m, env,
            <<"Error decoding JSON: ">> \o parsed.exc.detail \o <<". Content: ">> \o
            Pieces(Strip(env.chat.content)))
    ELSE IF ~Truthy(parsed.command_name)
    THEN PostAndReturn(chat.m, env, <<"Error: LLM response missing 'command'.">>)
    ELSE Dispatch(chat.m, env, parsed.command_name, parsed.params_dict)

\* process_command(command_text)
process_command(m, env, command_text) ==
    Handled(Body(m, env, Chat(m, "llm_prompt", env.chat), Interpret(env.chat.content)), env)

-----------------------------------------------------------------------------
(* The environment: what the model replies.                                *)

\* the JSON text of a value, as a model that follows the prompt writes it
RECURSIVE JsonText(_)
RECURSIVE JsonItems(_)
JsonText(v) ==
    CASE v.t = "str" -> <<JStr(v.s)>>
      [] v.t = "int" -> <<JNum(ToString(v.n))>>
      [] v.t = "float" -> <<JNum(FloatRepr[v.n])>>
      [] v.t = "None" -> <<Word("null")>>
      [] v.t = "dict" -> <<Punct("{")>> \o JsonItems(v.m) \o <<Punct("}")>>

JsonItems(items) ==
    IF items = <<>> THEN <<>>
    ELSE <<JStr(Head(items)[1]), Punct(":")>> \o JsonText(Head(items)[2]) \o
         (IF Len(items) > 1 THEN <<Punct(",")>> ELSE <<>>) \o JsonItems(Tail(items))

\* the object {"command": c, "parameters": p}
IntentObject(c, p) == PyDict(<< <<"command", c>>, <<"parameters", p>> >>)

One(k, v) == PyDict(<< <<k, v>> >>)
Two(k1, v1, k2, v2) == PyDict(<< <<k1, v1>>, <<k2, v2>> >>)

\* well-formed intents {"command": c, "parameters": p} the model may send
Intents ==
    { IntentObject(PyStr("rotate object"), p) :
        p \in { Two("angle_degrees", PyStr("90"), "axis", PyStr("x")),
                Two("angle_degrees", PyStr("abc"), "axis", PyStr("x")),
                Two("angle_degrees", PyInt(45), "axis", PyStr("q")),
                PyDict(<<>>) } } \cup
    { IntentObject(PyStr("scale object"), p) :
        p \in { One("scale_x", PyInt(2)), One("scale_x", PyStr("abc")) } } \cup
    { IntentObject(PyStr("move object"), One("delta_x", PyInt(2))) } \cup
    { IntentObject(PyStr("color_object"), p) :
        p \in { PyDict(<<>>), One("color_value", PyStr("red")) } } \cup
    { IntentObject(PyStr("add_shader_node"), p) :
        p \in { PyDict(<<>>), One("node_type", PyStr("ShaderNodeTexNoise")) } } \cup
    { IntentObject(PyStr("execute_blender_script"), p) :
        p \in { PyDict(<<>>), One("script_description", PyStr("make a cube")) } } \cup
    { IntentObject(PyStr(c), PyDict(<<>>)) :
        c \in {"remove_selected_nodes", "add cube", "front view", "nonexistent_command"} } \cup
    { IntentObject(PyStr("rotate_object"), Two("angle_degrees", PyStr("90"), "axis", PyStr("x"))),
      IntentObject(PyInt(5), PyDict(<<>>)),
      IntentObject(One("name", PyStr("add cube")), PyDict(<<>>)) }

\* objects that are JSON but no intent: no command, an empty command
NonIntents ==
    { One("parameters", PyDict(<<>>)),
      PyDict(<<>>),
      One("command", PyStr("")),
      One("command", PyNone),
      IntentObject(PyDict(<<>>), One("scale_x", PyInt(2))) }

\* an intent that leaves "parameters" out
BareIntents == { One("command", PyStr("add sphere")) }

\* replies with no JSON object in them
Malformed ==
    { <<>>,
      <<Word("no"), Word("json"), Word("here")>>,
      <<Punct("{"), Word("only")>>,
      <<Word("only"), Punct("}")>>,
      <<Punct("}"), Word("then"), Punct("{")>>,
      <<Punct("{"), JStr("command"), Punct(":"), JStr("add cube")>>,
      <<Punct("{"), JStr("command"), Punct(":"), JStr("add cube"), Punct(","), Punct("}")>>,
      <<Punct("{"), Word("command"), Punct(":"), JStr("add cube"), Punct("}")>>,
      <<Punct("{"), JStr("command"), JStr("add cube"), Punct("}")>> }

\* commentary: every text of at most n tokens over a word, "{" and "}"
CommentaryTokens == {Word("blah"), Punct("{"), Punct("}")}

Commentary(n) == UNION {[1..k -> CommentaryTokens] : k \in 0..n}

\* a model reply: its content, or the failure of the call
Answer(content) == [ok |-> TRUE, content |-> content]
NoAnswer == [ok |-> FALSE, content |-> <<>>]

\* how a reply was built: commentary, an object, commentary
Wrapped(pre, obj, post) == [kind |-> "wrapped", pre |-> pre, obj |-> obj, post |-> post]
Unwrapped == [kind |-> "other", pre |-> <<>>, obj |-> PyNone, post |-> <<>>]

\* the replies to the intent prompt, with how each was built
ProgramReplies ==
    { [answer |-> Answer(w \o JsonText(obj) \o w), payload |-> Wrapped(w, obj, w)] :
        obj \in Intents \cup NonIntents \cup BareIntents,
        w \in {<<>>, <<Word("blah")>>} } \cup
    { [answer |-> Answer(text), payload |-> Unwrapped] : text \in Malformed } \cup
    { [answer |-> NoAnswer, payload |-> Unwrapped] }

\* a script between fences
FencedScript == <<Fence, Word("python"), Space("\n"), Code("bpy.ops.mesh.primitive_cube_add()"), Space("\n"), Fence>>

\* a scene with an active mesh object that has a material with nodes
DefaultScene ==
    [objects |-> ("Cube" :> [name |-> "Cube", materials_attr |-> TRUE, material |-> "Material",
                             nodes |-> TRUE, bsdf |-> TRUE, output |-> "linked"]),
     active |-> "Cube"]

\* the environments of one call of process_command
ProgramEnvs(chat) ==
    { [can_post |-> can_post_message, chat |-> chat, nf |-> nf, hostFail |-> hf,
       nodeEditor |-> ne, scriptChat |-> Answer(FencedScript), execOutcome |-> "ok",
       scene |-> DefaultScene, nodesNewFails |-> FALSE, locationFails |-> FALSE] :
        nf \in SUBSET (1..NotifyAttempts), hf \in BOOLEAN, ne \in BOOLEAN }

-----------------------------------------------------------------------------
(* The program: the voice loop (lines 413-432), then the text loop (lines  *)
(* 434-453).  Each loop reads an utterance, then calls process_command.    *)

test_commands ==
    << "add a sphere",
       "scale the selection by 1.5 on x and 0.8 on y and 1.2 on zed",
       "rotate the current object by 90 degrees around the x axis",
       "move it by 2 units along y",
       "show me the front view",
       "execute a script to create a line of 5 cubes along the x axis",
       "run a script to delete all mesh objects",
       "color the active object blue",
       "set the color of the sphere to 0.8,0.2,0.1",
       "paint my object yellow",
       "add a noise texture node",
       "add a color ramp node to the selected object's material",
       "remove the selected nodes",
       "this is not a command" >>

\* what a user says or types, lower-cased
Utterances == {"turn it 90 degrees on x"}

NoIntent == [exc |-> NoExc, command_name |-> PyNone, params_dict |-> PyNone]

\* nothing is recorded of an utterance before its call
Cleared ==
    /\ fn' = "none"
    /\ reply' = NoAnswer
    /\ payload' = Unwrapped
    /\ intent' = NoIntent
    /\ outcome' = "none"
    /\ result' = <<>>
    /\ raised' = NoExc
    /\ notified' = <<>>
    /\ invoked' = <<>>
    /\ hostops' = <<>>
    /\ executed' = <<>>
    /\ asked' = <<>>

\* what a call that ended in step did
Recorded(name, answer, built, step) ==
    /\ fn' = name
    /\ reply' = answer
    /\ payload' = built
    /\ outcome' = IF Raised(step) THEN "raised" ELSE "returned"
    /\ result' = step.ret
    /\ raised' = step.exc
    /\ notified' = step.m.notified
    /\ invoked' = step.m.invoked
    /\ hostops' = step.m.hostops
    /\ executed' = step.m.executed
    /\ asked' = step.m.asked

Init ==
    /\ can_post_message \in BOOLEAN
    /\ current_test_command_index = 0
    /\ pc = "mic_setup"
    /\ cmd_text = ""
    /\ fn = "none"
    /\ reply = NoAnswer
    /\ payload = Unwrapped
    /\ intent = NoIntent
    /\ outcome = "none"
    /\ result = <<>>
    /\ raised = NoExc
    /\ notified = <<>>
    /\ invoked = <<>>
    /\ hostops = <<>>
    /\ executed = <<>>
    /\ asked = <<>>

\* lines 413-416 and 429-432: the microphone opens, or the program goes on
\* to text input
MicSetup ==
    /\ pc = "mic_setup"
    /\ \E opened \in BOOLEAN : pc' = IF opened THEN "voice_listen" ELSE "text_input"
    /\ UNCHANGED <<can_post_message, current_test_command_index, cmd_text, fn, reply,
                   payload, intent, outcome, result, raised, notified, invoked,
                   hostops, executed, asked>>

\* lines 418-422 and 425-428: listen and transcribe
VoiceListen ==
    /\ pc = "voice_listen"
    /\ \E heard \in Utterances \cup
                    {"WaitTimeoutError", "UnknownValueError", "RequestError", "KeyboardInterrupt"} :
          /\ pc' = CASE heard \in Utterances -> "voice_process"
                     [] heard \in {"WaitTimeoutError", "UnknownValueError"} -> "voice_listen"
                     [] OTHER -> "text_input"
          /\ cmd_text' = IF heard \in Utterances THEN heard ELSE ""
    /\ Cleared
    /\ UNCHANGED <<can_post_message, current_test_command_index>>

\* where the program goes when process_command, called at line 423, ends
AfterVoiceCall(step) ==
    IF ~Raised(step) THEN "voice_listen"
    ELSE IF step.exc.cls = "KeyboardInterrupt" \/ IsException(step.exc) THEN "text_input"
    ELSE "crashed"

\* line 423: result = process_command(command_text)
VoiceProcess ==
    /\ pc = "voice_process"
    /\ \E r \in ProgramReplies : \E env \in ProgramEnvs(r.answer) :
       \E step \in {process_command(NoEffects, env, cmd_text)} :
          /\ Recorded("process_command", r.answer, r.payload, step)
          /\ intent' = IF r.answer.ok THEN Interpret(r.answer.content) ELSE NoIntent
          /\ pc' = AfterVoiceCall(step)
    /\ UNCHANGED <<can_post_message, current_test_command_index, cmd_text>>

\* lines 437-451 and 453: read a line and choose the utterance
TextInput ==
    /\ pc = "text_input"
    /\ \E user_input \in Utterances \cup {"", "next", "quit", "EOFError", "KeyboardInterrupt"} :
          LET more == current_test_command_index < Len(test_commands)
              test == user_input \in {"", "next"} /\ more
          IN  /\ pc' = CASE user_input \in {"EOFError", "KeyboardInterrupt", "quit"} -> "exited"
                         [] test \/ user_input \in Utterances -> "text_process"
                         [] OTHER -> "text_input"
              /\ cmd_text' = CASE test -> test_commands[current_test_command_index + 1]
                               [] user_input \in Utterances -> user_input
                               [] OTHER -> ""
              /\ current_test_command_index' =
                    IF test THEN current_test_command_index + 1 ELSE current_test_command_index
    /\ Cleared
    /\ UNCHANGED can_post_message

\* where the program goes when process_command, called at line 452, ends
AfterTextCall(step) ==
    IF ~Raised(step) THEN "text_input"
    ELSE IF step.exc.cls \in {"EOFError", "KeyboardInterrupt"} THEN "exited"
    ELSE "crashed"

\* line 452: if cmd_text: print(process_command(cmd_text))
TextProcess ==
    /\ pc = "text_process"
    /\ \E r \in ProgramReplies : \E env \in ProgramEnvs(r.answer) :
       \E step \in {process_command(NoEffects, env, cmd_text)} :
          /\ Recorded("process_command", r.answer, r.payload, step)
          /\ intent' = IF r.answer.ok THEN Interpret(r.answer.content) ELSE NoIntent
          /\ pc' = AfterTextCall(step)
    /\ UNCHANGED <<can_post_message, current_test_command_index, cmd_text>>

Next == MicSetup \/ VoiceListen \/ VoiceProcess \/ TextInput \/ TextProcess

Spec == Init /\ [][Next]_vars

-----------------------------------------------------------------------------
(* The script operation on its own: execute_generated_blender_script is    *)
(* called with a description, the model replies to the script prompt, and  *)
(* the text that is left after lines 253-256 is executed.                  *)

\* how a reply to the script prompt was built: commentary, an opening
\* fence with or without a tag, the script, a closing fence, commentary
ScriptPayload(pre, open, script, close, post) ==
    [kind |-> "script", pre |-> pre, open |-> open, obj |-> script,
     close |-> close, post |-> post]

Scripts == { <<Code("bpy.ops.mesh.primitive_cube_add()")>>,
             <<Code("import sys"), Space("\n"), Code("sys.exit()")>> }

\* an empty script
Blank == <<>>

ScriptOpeners == { <<>>, <<Fence>>, <<Fence, Word("python")>>, <<Fence, Word("py")>> }
ScriptClosers == { <<>>, <<Fence>> }
ScriptPre == { <<>>, <<Word("Here is the script:"), Space("\n")>> }
ScriptPost == { <<>>, <<Space("\n"), Word("This adds a cube.")>> }

\* the replies to the script prompt, with how each was built
ScriptReplies ==
    { [answer |-> Answer(pre \o open \o <<Space("\n")>> \o script \o <<Space("\n")>> \o close \o post),
       payload |-> ScriptPayload(pre, open, script, close, post)] :
        pre \in ScriptPre, open \in ScriptOpeners, script \in Scripts,
        close \in ScriptClosers, post \in ScriptPost } \cup
    { [answer |-> Answer(open \o <<Space("\n")>> \o close),
       payload |-> ScriptPayload(<<>>, open, Blank, close, <<>>)] :
        open \in ScriptOpeners, close \in ScriptClosers } \cup
    { [answer |-> NoAnswer, payload |-> Unwrapped] }

\* what executing a script may do
ExecOutcomes == {"ok", "Exception", "SystemExit", "KeyboardInterrupt"}

\* the environments of one call of the script operation
ScriptEnvs(chat) ==
    { [can_post |-> can_post_message, chat |-> NoAnswer, nf |-> nf, hostFail |-> FALSE,
       nodeEditor |-> FALSE, scriptChat |-> chat, execOutcome |-> x,
       scene |-> DefaultScene, nodesNewFails |-> FALSE, locationFails |-> FALSE] :
        nf \in SUBSET (1..NotifyAttempts), x \in ExecOutcomes }

InitScript ==
    /\ can_post_message \in BOOLEAN
    /\ current_test_command_index = 0
    /\ pc = "script_call"
    /\ cmd_text = ""
    /\ fn = "none"
    /\ \E r \in ScriptReplies : reply = r.answer /\ payload = r.payload
    /\ intent = NoIntent
    /\ outcome = "none"
    /\ result = <<>>
    /\ raised = NoExc
    /\ notified = <<>>
    /\ invoked = <<>>
    /\ hostops = <<>>
    /\ executed = <<>>
    /\ asked = <<>>

\* execute_generated_blender_script("make a cube")
ScriptCall ==
    /\ pc = "script_call"
    /\ \E env \in ScriptEnvs(reply) :
       \E step \in {execute_generated_blender_script(NoEffects, env, PyStr("make a cube"))} :
          /\ Recorded("execute_generated_blender_script", reply, payload, step)
          /\ pc' = IF Raised(step) THEN "script_raised" ELSE "script_returned"
    /\ UNCHANGED <<can_post_message, current_test_command_index, cmd_text, intent>>

NextScript == ScriptCall

SpecScript == InitScript /\ [][NextScript]_vars

-----------------------------------------------------------------------------
(* The response interpreter on its own: lines 320-335 applied to a reply   *)
(* that holds one intent object between two commentaries.                  *)

InterpretReplies ==
    { [answer |-> Answer(pre \o JsonText(obj) \o post), payload |-> Wrapped(pre, obj, post)] :
        pre \in Commentary(MaxCommentary), obj \in Intents, post \in Commentary(MaxCommentary) }

InitInterpret ==
    /\ can_post_message \in BOOLEAN
    /\ current_test_command_index = 0
    /\ pc = "interpret"
    /\ cmd_text = ""
    /\ fn = "none"
    /\ \E r \in InterpretReplies : reply = r.answer /\ payload = r.payload
    /\ intent = NoIntent
    /\ outcome = "none"
    /\ result = <<>>
    /\ raised = NoExc
    /\ notified = <<>>
    /\ invoked = <<>>
    /\ hostops = <<>>
    /\ executed = <<>>
    /\ asked = <<>>

\* lines 320-335 on the reply
InterpretCall ==
    /\ pc = "interpret"
    /\ intent' = Interpret(reply.content)
    /\ fn' = "interpret"
    /\ pc' = "interpreted"
    /\ UNCHANGED <<can_post_message, current_test_command_index, cmd_text, reply, payload,
                   outcome, result, raised, notified, invoked, hostops,
                   executed, asked>>

NextInterpret == InterpretCall

SpecInterpret == InitInterpret /\ [][NextInterpret]_vars

-----------------------------------------------------------------------------
(* The color parser and the color operation on their own:                  *)
(* parse_color_value(v), and color_object_action(v) on the active object   *)
(* of a scene.                                                             *)

\* elements of a color sequence: numbers in and out of [0, 1], a string
\* that is no number
ColorElements == {PyInt(0), PyFloat(50), PyInt(2), PyStr("a")}

\* the sequences of at most n elements
ColorSequences(n) == UNION {[1..k -> ColorElements] : k \in 0..n}

\* the values handed to the parser: strings, lists, tuples, other types
ColorInputs ==
    { PyStr(c) : c \in {"red", "RED", "Red", "Blue", "gold", "crimson", "", "5",
                        "0.1,0.2,0.9", "1,0,0,0.5", "2,0,0", "1.5,0,0,2", "1,2",
                        "1,0,0,0.5,1", "not,a,color"} } \cup
    { PyList(e) : e \in ColorSequences(MaxComponents) } \cup
    { PyTuple(<<PyFloat(10), PyFloat(20), PyFloat(90)>>),
      PyTuple(<<PyInt(1), PyInt(0), PyInt(0), PyFloat(50)>>),
      PyTuple(<<PyInt(1), PyInt(2)>>),
      PyList(<<PyNone, PyInt(0), PyInt(0)>>),
      PyInt(5), PyFloat(50), PyNone, PyDict(<<>>) }

\* how a color value was handed over
ColorPayload(v) == [kind |-> "color", pre |-> <<>>, obj |-> v, post |-> <<>>]

\* scenes: the active object has a material with a Principled BSDF; has no
\* material; has a material without a Principled BSDF; there is no object
ColorScenes ==
    { DefaultScene,
      [DefaultScene EXCEPT !.objects["Cube"].material = ""],
      [DefaultScene EXCEPT !.objects["Cube"].bsdf = FALSE, !.objects["Cube"].output = "free"],
      [DefaultScene EXCEPT !.active = ""] }

\* the environments of one call of the color operation
ColorEnvs ==
    { [can_post |-> can_post_message, chat |-> NoAnswer, nf |-> nf, hostFail |-> FALSE,
       nodeEditor |-> FALSE, scriptChat |-> NoAnswer, execOutcome |-> "ok",
       scene |-> sc, nodesNewFails |-> FALSE, locationFails |-> FALSE] :
        nf \in SUBSET (1..NotifyAttempts), sc \in ColorScenes }

InitColor ==
    /\ can_post_message \in BOOLEAN
    /\ current_test_command_index = 0
    /\ pc = "color"
    /\ cmd_text = ""
    /\ fn = "none"
    /\ reply = NoAnswer
    /\ \E v \in ColorInputs : payload = ColorPayload(v)
    /\ intent = NoIntent
    /\ outcome = "none"
    /\ result = <<>>
    /\ raised = NoExc
    /\ notified = <<>>
    /\ invoked = <<>>
    /\ hostops = <<>>
    /\ executed = <<>>
    /\ asked = <<>>

\* parse_color_value(v): result is the value returned
ParseCall ==
    /\ pc = "color"
    /\ \E r \in {parse_color_value(payload.obj)} :
          /\ fn' = "parse_color_value"
          /\ outcome' = IF r.exc # NoExc THEN "raised" ELSE "returned"
          /\ result' = r.val
          /\ raised' = r.exc
    /\ pc' = "parsed"
    /\ UNCHANGED <<can_post_message, current_test_command_index, cmd_text, reply, payload,
                   intent, notified, invoked, hostops, executed, asked>>

\* color_object_action(v)
ColorCall ==
    /\ pc = "color"
    /\ \E env \in ColorEnvs :
       \E step \in {color_object_action(NoEffects, env, payload.obj, PyNone)} :
          Recorded("color_object_action", reply, payload, step)
    /\ pc' = "colored"
    /\ UNCHANGED <<can_post_message, current_test_command_index, cmd_text, intent>>

NextColor == ParseCall \/ ColorCall

SpecColor == InitColor /\ [][NextColor]_vars

-----------------------------------------------------------------------------
(* The program together with the script operation on its own, so that      *)
(* both kinds of model call occur.                                         *)

InitCalls == Init \/ InitScript

NextCalls == Next \/ NextScript

SpecCalls == InitCalls /\ [][NextCalls]_vars

-----------------------------------------------------------------------------
(* Properties.  A call is described by what was recorded of it: the reply  *)
(* and how it was built, the intent read from it, how the call ended, and  *)
(* the notifications, calls, host operations and executions it made.       *)

\* the call of process_command for the last utterance has ended
Processed == fn = "process_command"

\* the script operation has ended
ScriptRan == fn = "execute_generated_blender_script"

\* every notification of the call was delivered
Delivered == \A i \in DOMAIN notified : notified[i].ok

\* the reply is an intent object in commentary, and the object is obj
Sent(obj) == Processed /\ payload.kind = "wrapped" /\ payload.obj = obj

\* the reply is an intent object for command c
SentCommand(c) ==
    /\ Processed
    /\ payload.kind = "wrapped"
    /\ HasKey(payload.obj, "command")
    /\ DictGet(payload.obj, "command", PyNone) = PyStr(c)

\* piece s occurs in message msg
Mentions(msg, s) == \E i \in DOMAIN msg : msg[i] = s

\* the call returned the text of a failure of process_command or of an action
ReturnedFailure ==
    /\ outcome = "returned"
    /\ result # <<>>
    /\ result[1] \in {"Error in process_command: ", "Error: '", "Command '",
                      "Error decoding JSON: ", "Error: LLM response missing 'command'."}

RotateBy90AroundX ==
    IntentObject(PyStr("rotate object"), Two("angle_degrees", PyStr("90"), "axis", PyStr("x")))

\* C1: when the intent is the rotate command with angle_degrees "90" and
\* axis "x" and nothing fails, the rotate operation is invoked once, the host
\* rotates by 90.0 degrees around X, and the returned message mentions 90
\* degrees and axis X.
C1_RotateRunsWithCoercedParameters ==
    (Sent(RotateBy90AroundX) /\ Delivered /\ ~ReturnedFailure) =>
        /\ outcome = "returned"
        /\ Len(invoked) = 1
        /\ invoked[1].command = "rotate object"
        /\ hostops = << <<"transform.rotate", ToString(Radians(PyFloat(9000))), "X">> >>
        /\ Mentions(result, "90") \/ Mentions(result, "90.0")
        /\ Mentions(result, "x") \/ Mentions(result, "X")

\* C2: every call of process_command returns a string; none raises.
C2_ProcessCommandAlwaysReturns ==
    Processed => outcome = "returned"

\* C3: whatever the executed script raises, the script operation returns the
\* text of a script-execution failure; it does not raise.
C3_ScriptErrorsAreCaught ==
    (ScriptRan /\ executed # <<>> /\ Delivered) =>
        /\ outcome = "returned"
        /\ result[1] \in {"Error during script generation/execution: ",
                          "Successfully executed generated script for: "}

\* C4: the notifications of a call of process_command that returned are one
\* or more, and each carries the text the call returned.
C4_NotificationCarriesReturnedText ==
    (Processed /\ outcome = "returned" /\ Delivered) =>
        /\ notified # <<>>
        /\ \A i \in DOMAIN notified : notified[i].body = result

\* C5: a command that is no key of the registry gets the unknown-command
\* text as result, and nothing is called, run by the host or executed.
C5_UnknownCommandRunsNothing ==
    (Processed /\ reply.ok /\ intent.exc = NoExc /\ Truthy(intent.command_name) /\
     ~(intent.command_name.t = "str" /\ intent.command_name.s \in AVAILABLE_COMMAND_KEYS)) =>
        /\ outcome = "returned"
        /\ result = <<"Command '", Str(intent.command_name), "' not recognized.">>
        /\ invoked = <<>> /\ hostops = <<>> /\ executed = <<>>

\* the parameter without default of each command that has one
RequiredParameter ==
    ("color_object" :> "color_value") @@ ("add_shader_node" :> "node_type") @@
    ("execute_blender_script" :> "script_description")

\* C6: a command whose required parameter is absent from the intent gets
\* the missing-parameter text naming that parameter as result, and its
\* operation is not called.
C6_MissingParameterIsReported ==
    \A c \in DOMAIN RequiredParameter :
        (SentCommand(c) /\ Delivered /\
         ~HasKey(DictGet(payload.obj, "parameters", PyDict(<<>>)), RequiredParameter[c])) =>
            /\ outcome = "returned"
            /\ result = <<"Error: '", RequiredParameter[c], "' missing.">>
            /\ invoked = <<>>

\* intents with a value that cannot be coerced, and the parameter it is for
Uncoercible ==
    { [obj |-> IntentObject(PyStr("rotate object"), Two("angle_degrees", PyStr("abc"), "axis", PyStr("x"))),
       name |-> "angle_degrees"],
      [obj |-> IntentObject(PyStr("rotate object"), Two("angle_degrees", PyInt(45), "axis", PyStr("q"))),
       name |-> "axis"],
      [obj |-> IntentObject(PyStr("scale object"), One("scale_x", PyStr("abc"))),
       name |-> "scale_x"] }

\* C7: a parameter value that cannot be coerced makes process_command
\* return a failure that names the parameter, and no host operation runs.
C7_UncoercibleValueIsRejected ==
    \A u \in Uncoercible :
        (Sent(u.obj) /\ Delivered) =>
            /\ ReturnedFailure
            /\ \E i \in DOMAIN result : result[i] = u.name \/ result[i] = u.name \o "'"
            /\ hostops = <<>>

\* the reply was interpreted, and it holds an intent object in commentary
Interpreted == fn = "interpret" /\ payload.kind = "wrapped"

\* the intent read is the object's command and parameters
ReadsPayload ==
    /\ intent.exc = NoExc
    /\ intent.command_name = DictGet(payload.obj, "command", PyNone)
    /\ intent.params_dict = DictGet(payload.obj, "parameters", PyNone)

Has(text, tok) == \E i \in DOMAIN text : text[i] = tok

\* C8 as stated: whatever the commentary before and after the intent object,
\* the interpreter reads the object's command and parameters.
C8_AnyCommentaryIsIgnored ==
    Interpreted => ReadsPayload

\* C8: when the commentary before the intent object holds no opening brace
\* and the commentary after it holds no closing brace, the interpreter reads
\* the object's command and parameters.
C8_BraceFreeCommentaryIsIgnored ==
    (Interpreted /\ ~Has(payload.pre, Punct("{")) /\ ~Has(payload.post, Punct("}"))) =>
        ReadsPayload

\* an intent with a parameter object was read from between two commentaries,
\* a closing brace before it and an opening brace after it
C8_ReadBetweenCommentaries ==
    /\ Interpreted
    /\ payload.pre = <<Word("blah"), Punct("}")>>
    /\ payload.post = <<Punct("{"), Word("blah")>>
    /\ payload.obj = RotateBy90AroundX
    /\ intent.command_name = PyStr("rotate object")
    /\ intent.params_dict = Two("angle_degrees", PyStr("90"), "axis", PyStr("x"))

\* C9: when the reply holds no intent (no braces, no JSON between them, no
\* non-empty command), process_command returns a parse-failure text, calls
\* no operation of the registry and executes no script.
C9_ParseFailureRunsNothing ==
    (Processed /\ reply.ok /\ (intent.exc # NoExc \/ ~Truthy(intent.command_name))) =>
        /\ outcome = "returned"
        /\ result[1] \in {"Error decoding JSON: ", "Error: LLM response missing 'command'."}
        /\ invoked = <<>> /\ hostops = <<>> /\ executed = <<>>

\* C10: when the reply holds a script between an opening fence, tagged or
\* not, and a closing fence, with or without commentary around them, the
\* text executed is the script.
C10_ExecutedTextIsTheScript ==
    (ScriptRan /\ payload.kind = "script" /\ payload.open # <<>> /\
     payload.close = <<Fence>> /\ payload.obj # Blank) =>
        executed = <<payload.obj>>

\* C11: when the reply to the script prompt holds no script (nothing but
\* whitespace and fences, tagged or not), nothing is executed and the
\* empty-script text is returned; and no executed text is blank.
C11_BlankReplyIsNotExecuted ==
    /\ (ScriptRan /\ payload.kind = "script" /\ payload.obj = Blank) =>
          /\ executed = <<>>
          /\ outcome = "returned"
          /\ result = <<"LLM did not return any script code.">>
    /\ ScriptRan => \A i \in DOMAIN executed : Strip(executed[i]) # <<>>

\* the parser has returned or raised
Parsed == fn = "parse_color_value"

\* the comma-separated tokens of a string, the elements of a sequence
ColorParts(v) ==
    CASE v.t = "str" -> [i \in 1..Len(SplitComma(Lower(v.s))) |-> PyStr(SplitComma(Lower(v.s))[i])]
      [] v.t \in {"list", "tuple"} -> v.m
      [] OTHER -> <<>>

\* a numeric token of a string, a number of a sequence
IsNumber(e) ==
    \/ e.t \in {"int", "float"}
    \/ e.t = "str" /\ e.s \in DOMAIN IntNumerals \cup DOMAIN FracNumerals

\* what the rule table gives for v: the named color, else 3 or 4 numbers
\* as RGBA with alpha 1.0 when left out, else the parse error value None
RuleTable(v) ==
    IF v.t = "str" /\ Lower(v.s) \in DOMAIN STANDARD_COLORS
    THEN PyTuple([i \in 1..4 |-> PyFloat(STANDARD_COLORS[Lower(v.s)][i])])
    ELSE LET parts == ColorParts(v) IN
         IF Len(parts) \in {3, 4} /\ \A i \in DOMAIN parts : IsNumber(parts[i])
         THEN PyTuple([i \in 1..4 |->
                        IF i <= Len(parts) THEN Float(parts[i]).val ELSE PyFloat(100)])
         ELSE PyNone

\* C12: for every input the parser returns what its rule table gives, the
\* parse error value included; it never raises.
C12_ParserFollowsRuleTable ==
    Parsed => outcome = "returned" /\ result = RuleTable(payload.obj)

\* the color operation has ended
Colored == fn = "color_object_action"

\* repr() of the floats from 0.0 to 1.0
UnitReprs == {FloatRepr[x] : x \in {y \in DOMAIN FloatRepr : y >= 0 /\ y <= 100}}

\* a write of a base color with four components, each within [0, 1]
UnitColorWrite(op) ==
    /\ Len(op) = 9
    /\ \A i \in {2, 4, 6, 8} : op[i] \in UnitReprs

\* C13: every color the parser returns has four components, each within
\* [0, 1] (0 to 100 hundredths), and so has every base color the color
\* operation writes.
C13_ColorsAreUnitRGBA ==
    /\ (Parsed /\ outcome = "returned" /\ result # PyNone) =>
          /\ Len(result.m) = 4
          /\ \A i \in DOMAIN result.m : result.m[i].n >= 0 /\ result.m[i].n <= 100
    /\ Colored =>
          \A i \in DOMAIN hostops :
              hostops[i][1] = "Base Color = (" => UnitColorWrite(hostops[i])

\* the parser does not give a color for v
Rejects(v) == parse_color_value(v).exc # NoExc \/ parse_color_value(v).val = PyNone

\* host calls that create or attach a material, add or link a node, or set
\* a base color
SceneWrites == {"materials.new", "materials.append", "nodes.new", "links.new", "Base Color = ("}

\* C16: when the color operation is given a value the parser rejects, it
\* returns a failure text and writes nothing to the scene.
C16_RejectedColorLeavesSceneUnchanged ==
    (Colored /\ payload.kind = "color" /\ Rejects(payload.obj)) =>
        /\ outcome = "returned"
        /\ result # <<>>
        /\ result[1] \in {"Invalid color value provided: ",
                          "Cannot color: No target object found or specified."}
        /\ \A i \in DOMAIN hostops : hostops[i][1] \notin SceneWrites

\* how often the model was asked with prompt p for the current utterance
TimesAsked(p) == Cardinality({i \in DOMAIN asked : asked[i] = p})

\* C14: for one utterance the model is asked at most once for an intent and
\* at most once for a script; before an utterance is processed (a failed
\* transcription included) it is not asked at all; and a failed model call
\* is the only call of its utterance: nothing is called or executed after
\* it and the result, if one is returned, is the failure text.
C14_NoRetryWithinAnUtterance ==
    /\ TimesAsked("llm_prompt") <= 1
    /\ TimesAsked("script_prompt") <= 1
    /\ fn = "none" => asked = <<>>
    /\ (Processed /\ ~reply.ok) =>
          /\ asked = <<"llm_prompt">>
          /\ invoked = <<>> /\ hostops = <<>> /\ executed = <<>>
          /\ outcome = "returned" => result[1] = "Error in process_command: "
    /\ (ScriptRan /\ ~reply.ok) =>
          /\ asked = <<"script_prompt">>
          /\ executed = <<>>
          /\ outcome = "returned" => result[1] = "Error during script generation/execution: "

\* a model call failed in the text loop, the failure was returned, and the
\* loop is back at its input
C14_FailedCallAskedOnce ==
    /\ Processed /\ ~reply.ok
    /\ asked = <<"llm_prompt">>
    /\ outcome = "returned"
    /\ result[1] = "Error in process_command: "
    /\ pc = "text_input"

\* C15: whatever happened to an utterance, the program is at the input of
\* a loop afterwards; it has neither ended nor crashed.
C15_LoopSurvivesEveryFailure ==
    Processed => pc \in {"voice_listen", "text_input"}

=============================================================================
